---- MODULE Spec2Model ----
(***************************************************************************)
(* Model of the on-chain state core of ckb:                                *)
(*   core/src/cell.rs      cell statuses, cell providers, the resolver     *)
(*   shared/src/store.rs   the chain store and its write batch             *)
(*   rpc/src/module/pool.rs  send_transaction / get_pool_transaction       *)
(***************************************************************************)
EXTENDS Integers, Sequences, FiniteSets, TLC

VARIABLES
    cellsA,     \* CellMemoryDb used as the overlay (top) provider
    cellsB,     \* CellMemoryDb used as the bottom provider (the confirmed store's view)
    block,      \* the candidate block handed to BlockCellProvider::new
    tx,         \* the transaction handed to resolve_transaction
    asked,      \* the last provider call: which provider stack, which outpoint
    status,     \* the CellStatus that call returned
    rtx,        \* the last ResolvedTransaction, <<>> before any
    capacity,   \* what the last fee() / inputs_capacity() call returned, <<>> before any
    db,         \* the committed content of the key/value engine, by column
    batch,      \* the writer's StoreBatch: open or not, its writes, the calls made on it
    world,      \* the blocks the callers of the store hold
    ncalls,     \* number of StoreBatch / init calls made so far
    last,       \* the last batch that ended: how, its calls, the content before it
    threads,    \* per RPC thread: its position in send_transaction / get_pool_transaction and its locals
    pool,       \* the transaction pool behind the chain-state mutex: a set of PoolEntry
    lock,       \* the holder of the chain-state mutex, <<>> when free
    relayed,    \* the transactions broadcast on the relay protocol, in order
    nreq        \* number of RPC calls started so far

cellVars == <<cellsA, cellsB, block, tx, asked, status, rtx, capacity>>
storeVars == <<db, batch, world, ncalls, last>>
poolVars == <<threads, pool, lock, relayed, nreq>>

vars == <<cellsA, cellsB, block, tx, asked, status, rtx, capacity, db, batch, world, ncalls, last,
          threads, pool, lock, relayed, nreq>>

(***************************************************************************)
(* Bounds of the model.                                                    *)
(***************************************************************************)
NumTxHashes == 2
MaxIndex == 0
MaxInputs == 2
MaxDeps == 1
MaxOutputs == 1
MaxTxs == 2
MaxCapacity == 2
MaxNumber == 1
NumStoreTxs == 2
MaxBlockTxs == 2
MaxUncles == 1
MaxProposals == 1
MaxCalls == 3
CapacityBits == 2
NumThreads == 2
MaxRequests == 2
MaxFeeInputs == 2
MaxFeeOutputs == 2

(***************************************************************************)
(* Values.                                                                 *)
(***************************************************************************)
None == <<>>
Some(x) == <<x>>

ZeroHash == 0
\* OutPoint::null() has index u32::max_value(); the model uses the largest
\* integer the checker represents, which like it lies beyond every output list.
NullIndex == 2147483647

TxHashes == 1..NumTxHashes
Indices == 0..MaxIndex
Capacities == 1..MaxCapacity
BlockNumbers == 0..MaxNumber

OutPoint(h, i) == [tx_hash |-> h, index |-> i]
NullOutPoint == OutPoint(ZeroHash, NullIndex)
OutPoints == {OutPoint(h, i) : h \in TxHashes, i \in Indices}
InputPts == OutPoints \cup {NullOutPoint}

CellMeta(cell_output, block_number, cellbase) ==
    [cell_output |-> cell_output, block_number |-> block_number, cellbase |-> cellbase]

Live(meta) == [tag |-> "Live", meta |-> meta]
Dead == [tag |-> "Dead"]
Unknown == [tag |-> "Unknown"]

live_output(cell_output, block_number, cellbase) ==
    Live(CellMeta(cell_output, block_number, cellbase))

is_live(s) == s.tag = "Live"
is_dead(s) == s = Dead
is_unknown(s) == s = Unknown

SeqsUpTo(S, n) == UNION {[1..k -> S] : k \in 0..n}

EmptyMap == [x \in {} |-> 0]

(***************************************************************************)
(* Transaction (ckb_core::transaction).  A transaction carries its hash,   *)
(* its inputs' previous_outputs, its dep outpoints and its outputs (an     *)
(* output is represented by its capacity).                                 *)
(***************************************************************************)
Transaction(h, ins, ds, outs) ==
    [hash |-> h, inputs |-> ins, deps |-> ds, outputs |-> outs]

input_pts(t) == t.inputs
dep_pts(t) == t.deps

\* Transaction::is_cellbase: the reserved coinbase input shape, one input
\* whose previous_output is the null outpoint.
TxIsCellbase(t) == Len(t.inputs) = 1 /\ t.inputs[1] = NullOutPoint

(***************************************************************************)
(* CellMemoryDb: a table OutPoint -> Option<CellMeta>.                     *)
(***************************************************************************)
MemoryDbCell(cells, o) ==
    IF o \in DOMAIN cells
    THEN IF cells[o] # None THEN Live(cells[o][1]) ELSE Dead
    ELSE Unknown

(***************************************************************************)
(* Block (ckb_core::block): the header number and the ordered              *)
(* transactions.                                                           *)
(***************************************************************************)
Header(n, ts, diff, txs, uncles, proposals) ==
    [number |-> n, timestamp |-> ts, difficulty |-> diff,
     txs_commit |-> [i \in DOMAIN txs |-> txs[i].hash],
     uncles_hash |-> uncles, txs_proposal |-> proposals]

\* BlockBuilder: header, uncles, transactions, proposals.
BlockOf(header, uncles, txs, proposals) ==
    [header |-> header, uncles |-> uncles, transactions |-> txs, proposals |-> proposals]

\* A block whose header commits to its content.
SealedBlock(n, ts, diff, txs, uncles, proposals) ==
    BlockOf(Header(n, ts, diff, txs, uncles, proposals), uncles, txs, proposals)

CellBlock(n, txs) == SealedBlock(n, 0, 0, txs, <<>>, <<>>)
EmptyBlock == CellBlock(0, <<>>)
EmptyTx == Transaction(1, <<>>, <<>>, <<>>)

(***************************************************************************)
(* The providers.  A provider is a value; Cell dispatches on its kind the  *)
(* way the trait object dispatches on its implementation.                  *)
(***************************************************************************)
RECURSIVE Cell(_, _)

get_cell_status(p, o) == Cell(p, o)

MemoryDb(cells) == [kind |-> "db", cells |-> cells]

OverlayCellProviderNew(overlay, cell_provider) ==
    [kind |-> "overlay", overlay |-> overlay, cell_provider |-> cell_provider]

OverlayCellBottomWins(p, o) ==
    LET below == get_cell_status(p.cell_provider, o)
    IN  IF below = Unknown THEN get_cell_status(p.overlay, o) ELSE below

\* OverlayCellProvider::cell
OverlayCell(p, o) ==
    LET top == get_cell_status(p.overlay, o)
    IN  CASE top.tag = "Live" -> Live(top.meta)
          [] top.tag = "Dead" -> Dead
          [] top.tag = "Unknown" -> get_cell_status(p.cell_provider, o)

CountEntryFromOne(counter, o) ==
    IF o \in DOMAIN counter
    THEN [counter EXCEPT ![o] = @ + 1]
    ELSE counter @@ (o :> 1)

\* entry(k).and_modify(|c| *c += 1).or_default(): the first occurrence of an
\* outpoint inserts 0, every later one adds 1.
CountEntry(counter, o) ==
    IF o \in DOMAIN counter
    THEN [counter EXCEPT ![o] = @ + 1]
    ELSE counter @@ (o :> 0)

RECURSIVE CountInputs(_, _)
CountInputs(counter, pts) ==
    IF pts = <<>> THEN counter
    ELSE CountInputs(CountEntry(counter, Head(pts)), Tail(pts))

RECURSIVE CountBlockInputs(_, _)
CountBlockInputs(counter, txs) ==
    IF txs = <<>> THEN counter
    ELSE CountBlockInputs(CountInputs(counter, Head(txs).inputs), Tail(txs))

RECURSIVE CollectIndicesFirstWins(_, _, _)
CollectIndicesFirstWins(indices, txs, idx) ==
    IF txs = <<>> THEN indices
    ELSE CollectIndicesFirstWins(
            [h \in DOMAIN indices \cup {Head(txs).hash} |->
                IF h \in DOMAIN indices THEN indices[h] ELSE idx],
            Tail(txs), idx + 1)

\* collect() of (tx.hash(), idx): a later transaction with the same hash
\* replaces the earlier index.
RECURSIVE CollectIndices(_, _, _)
CollectIndices(indices, txs, idx) ==
    IF txs = <<>> THEN indices
    ELSE CollectIndices(
            [h \in DOMAIN indices \cup {Head(txs).hash} |->
                IF h = Head(txs).hash THEN idx ELSE indices[h]],
            Tail(txs), idx + 1)

\* BlockCellProvider::new
BlockCellProviderNew(b) ==
    [kind |-> "block",
     output_indices |-> CollectIndices(EmptyMap, b.transactions, 0),
     duplicate_inputs_counter |-> CountBlockInputs(EmptyMap, b.transactions),
     block |-> b]

BlockCellCounterAboveOne(p, o) ==
    IF o \in DOMAIN p.duplicate_inputs_counter /\ p.duplicate_inputs_counter[o] > 1
    THEN Dead
    ELSE IF o.tx_hash \in DOMAIN p.output_indices
    THEN LET i == p.output_indices[o.tx_hash]
             outputs == p.block.transactions[i + 1].outputs
         IN  IF o.index < Len(outputs)
             THEN live_output(outputs[o.index + 1], Some(p.block.header.number), i = 0)
             ELSE Unknown
    ELSE Unknown

\* BlockCellProvider::cell
BlockCell(p, o) ==
    IF o \in DOMAIN p.duplicate_inputs_counter /\ p.duplicate_inputs_counter[o] > 0
    THEN Dead
    ELSE IF o.tx_hash \in DOMAIN p.output_indices
    THEN LET i == p.output_indices[o.tx_hash]
             outputs == p.block.transactions[i + 1].outputs
         IN  IF o.index < Len(outputs)
             THEN live_output(outputs[o.index + 1], Some(p.block.header.number), i = 0)
             ELSE Unknown
    ELSE Unknown

TransactionCellProviderNewCountingDeps(t) ==
    [kind |-> "tx", duplicate_inputs_counter |-> CountInputs(EmptyMap, t.inputs \o t.deps)]

\* TransactionCellProvider::new
TransactionCellProviderNew(t) ==
    [kind |-> "tx", duplicate_inputs_counter |-> CountInputs(EmptyMap, t.inputs)]

TransactionCellCounterAboveOne(p, o) ==
    IF o \in DOMAIN p.duplicate_inputs_counter /\ p.duplicate_inputs_counter[o] > 1
    THEN Dead
    ELSE Unknown

\* TransactionCellProvider::cell
TransactionCell(p, o) ==
    IF o \in DOMAIN p.duplicate_inputs_counter /\ p.duplicate_inputs_counter[o] > 0
    THEN Dead
    ELSE Unknown

Cell(p, o) ==
    CASE p.kind = "db" -> MemoryDbCell(p.cells, o)
      [] p.kind = "overlay" -> OverlayCell(p, o)
      [] p.kind = "block" -> BlockCell(p, o)
      [] p.kind = "tx" -> TransactionCell(p, o)

ResolveTransactionPruningDeps(p, t) ==
    [transaction |-> t,
     input_cells |->
        IF TxIsCellbase(t) THEN <<>>
        ELSE [i \in 1..Len(input_pts(t)) |-> get_cell_status(p, input_pts(t)[i])],
     dep_cells |->
        SelectSeq([j \in 1..Len(dep_pts(t)) |-> get_cell_status(p, dep_pts(t)[j])],
                  LAMBDA c : c # Dead)]

\* CellProvider::resolve_transaction
ResolveTransaction(p, t) ==
    [transaction |-> t,
     input_cells |->
        IF TxIsCellbase(t) THEN <<>>
        ELSE [i \in 1..Len(input_pts(t)) |-> get_cell_status(p, input_pts(t)[i])],
     dep_cells |-> [j \in 1..Len(dep_pts(t)) |-> get_cell_status(p, dep_pts(t)[j])]]

\* ResolvedTransaction::is_cellbase
RtxIsCellbase(r) == r.input_cells = <<>>

(***************************************************************************)
(* Capacity (occupied_capacity): an unsigned integer of CapacityBits bits  *)
(* with checked addition and subtraction.                                  *)
(***************************************************************************)
CapacityMax == 2^CapacityBits - 1

Ok(x) == [ok |-> TRUE, value |-> x]
Err(e) == [ok |-> FALSE, error |-> e]
Overflow == Err("Overflow")

\* Result::and_then
AndThen(r, F(_)) == IF r.ok THEN F(r.value) ELSE r

CapacityZero == 0

safe_add(a, b) == IF a + b > CapacityMax THEN Overflow ELSE Ok(a + b)
safe_sub(a, b) == IF a < b THEN Overflow ELSE Ok(a - b)

\* try_fold(Capacity::zero(), Capacity::safe_add): stops at the first error
RECURSIVE TryFoldSafeAdd(_, _)
TryFoldSafeAdd(acc, caps) ==
    IF caps = <<>> THEN Ok(acc)
    ELSE LET r == safe_add(acc, Head(caps))
         IN  IF r.ok THEN TryFoldSafeAdd(r.value, Tail(caps)) ELSE r

\* Transaction::outputs_capacity
outputs_capacity(t) == TryFoldSafeAdd(CapacityZero, t.outputs)

\* CellMeta::capacity
MetaCapacity(meta) == meta.cell_output

\* the filter_map of inputs_capacity: the capacities of the Live cells, in order
RECURSIVE LiveCapacities(_)
LiveCapacities(cells) ==
    IF cells = <<>> THEN <<>>
    ELSE IF Head(cells).tag = "Live"
         THEN <<MetaCapacity(Head(cells).meta)>> \o LiveCapacities(Tail(cells))
         ELSE LiveCapacities(Tail(cells))

\* ResolvedTransaction::inputs_capacity
inputs_capacity(r) == TryFoldSafeAdd(CapacityZero, LiveCapacities(r.input_cells))

fee_wrapping_sub(r) ==
    AndThen(inputs_capacity(r), LAMBDA x :
        AndThen(outputs_capacity(r.transaction), LAMBDA y :
            Ok((x - y) % (CapacityMax + 1))))

\* ResolvedTransaction::fee
fee(r) ==
    AndThen(inputs_capacity(r), LAMBDA x :
        AndThen(outputs_capacity(r.transaction), LAMBDA y :
            IF x > y THEN safe_sub(x, y) ELSE Ok(CapacityZero)))

(***************************************************************************)
(* The key/value engine (ckb_db): columns, point reads, partial reads and  *)
(* an atomic write batch.  A column is a map from key bytes to value       *)
(* bytes; a batch is the ordered list of the writes issued on it.          *)
(***************************************************************************)
Columns ==
    {"HEADER", "UNCLE", "PROPOSAL_IDS", "BODY", "BODY_ADDRS", "EXT", "INDEX", "TX_ADDR", "META"}

EmptyDb == [c \in Columns |-> EmptyMap]

\* KeyValueDB::read
DbRead(d, col, key) == IF key \in DOMAIN d[col] THEN Some(d[col][key]) ELSE None

\* KeyValueDB::partial_read of the byte window from..to of the value
DbPartialRead(d, col, key, from, to) ==
    IF key \in DOMAIN d[col] /\ from <= to /\ to <= Len(d[col][key])
    THEN Some(SubSeq(d[col][key], from + 1, to))
    ELSE None

\* DbBatch::insert
DbBatchInsert(inner, col, key, value) ==
    Append(inner, [op |-> "insert", col |-> col, key |-> key, value |-> value])

\* DbBatch::delete
DbBatchDelete(inner, col, key) ==
    Append(inner, [op |-> "delete", col |-> col, key |-> key, value |-> <<>>])

ApplyWrite(d, w) ==
    IF w.op = "insert"
    THEN [d EXCEPT ![w.col] =
            [k \in DOMAIN @ \cup {w.key} |-> IF k = w.key THEN w.value ELSE @[k]]]
    ELSE [d EXCEPT ![w.col] = [k \in DOMAIN @ \ {w.key} |-> @[k]]]

RECURSIVE ApplyWrites(_, _)
ApplyWrites(d, inner) ==
    IF inner = <<>> THEN d ELSE ApplyWrites(ApplyWrite(d, Head(inner)), Tail(inner))

DbBatchCommitFirstWriteOnly(d, inner) ==
    IF inner = <<>> THEN d ELSE ApplyWrite(d, Head(inner))

\* DbBatch::commit: every write of the batch, in order, at once
DbBatchCommit(d, inner) == ApplyWrites(d, inner)

(***************************************************************************)
(* Bytes.  bincode of a value, the 32 bytes of a hash, the 8 little-endian *)
(* bytes of a block number (which is also bincode's encoding of a u64),    *)
(* and the flat packing of a block body.                                   *)
(***************************************************************************)
Serialize(x) == <<"bincode", x>>
Deserialize(raw) == raw[2]

HashBytes(h) == <<"h256", h>>
H256FromSlice(raw) == raw[2]

LeBytes(n) == <<"le8", n>>
DeserializeU64(raw) == raw[2]

META_TIP_HEADER_KEY == "TIP_HEADER"

\* The hash of a header: one hash per header content.
HeaderHash(header) == header

\* The serialized bytes of a transaction, one token per field element.
TxBytes(t) ==
    <<<<"hash", t.hash>>>>
        \o [i \in DOMAIN t.inputs |-> <<"input", t.inputs[i]>>]
        \o [i \in DOMAIN t.deps |-> <<"dep", t.deps[i]>>]
        \o [i \in DOMAIN t.outputs |-> <<"output", t.outputs[i]>>]

Tagged(bytes, tag) ==
    LET s == SelectSeq(bytes, LAMBDA x : x[1] = tag)
    IN  [i \in DOMAIN s |-> s[i][2]]

\* TransactionBuilder::new(bytes).build(); bytes that are no transaction
\* decode to no transaction of the model.
DecodeTx(bytes) ==
    IF bytes # <<>> /\ bytes[1][1] = "hash" /\ Len(Tagged(bytes, "hash")) = 1
    THEN Transaction(bytes[1][2], Tagged(bytes, "input"), Tagged(bytes, "dep"),
                     Tagged(bytes, "output"))
    ELSE [garbled |-> bytes]

Address(offset, length) == [offset |-> offset, length |-> length]

\* flat_serializer::serialized_addresses: the byte window of each transaction
RECURSIVE SerializedAddressesFrom(_, _)
SerializedAddressesFrom(txs, offset) ==
    IF txs = <<>> THEN <<>>
    ELSE <<Address(offset, Len(TxBytes(Head(txs))))>>
            \o SerializedAddressesFrom(Tail(txs), offset + Len(TxBytes(Head(txs))))

serialized_addresses(txs) == SerializedAddressesFrom(txs, 0)

RECURSIVE FlatData(_)
FlatData(txs) == IF txs = <<>> THEN <<>> ELSE TxBytes(Head(txs)) \o FlatData(Tail(txs))

\* flat_serializer::serialize: the concatenated bytes and the addresses
flat_serialize(txs) == [data |-> FlatData(txs), addresses |-> serialized_addresses(txs)]

TransactionAddress(block_hash, offset, length) ==
    [block_hash |-> block_hash, offset |-> offset, length |-> length]

BlockExt(received_at, total_difficulty, total_uncles_count, txs_verified) ==
    [received_at |-> received_at, total_difficulty |-> total_difficulty,
     total_uncles_count |-> total_uncles_count, txs_verified |-> txs_verified]

(***************************************************************************)
(* ChainKVStore: the reads of ChainStore over the committed state d.       *)
(***************************************************************************)
OptMap(opt, F(_)) == IF opt = None THEN None ELSE Some(F(opt[1]))
OptAndThen(opt, F(_)) == IF opt = None THEN None ELSE F(opt[1])

\* expect(..) on an absent value: the thread panics
Panic(msg) == <<"panic", msg>>
IsPanic(r) == Len(r) = 2

\* ChainKVStore::get
StoreGet(d, col, key) == DbRead(d, col, key)

\* ChainKVStore::partial_get
StorePartialGet(d, col, key, from, to) == DbPartialRead(d, col, key, from, to)

get_header(d, h) ==
    OptMap(StoreGet(d, "HEADER", HashBytes(h)), LAMBDA raw : Deserialize(raw))

get_block_uncles(d, h) ==
    OptMap(StoreGet(d, "UNCLE", HashBytes(h)), LAMBDA raw : Deserialize(raw))

get_block_proposal_txs_ids(d, h) ==
    OptMap(StoreGet(d, "PROPOSAL_IDS", HashBytes(h)), LAMBDA raw : Deserialize(raw))

\* filter_map over the addresses: a window outside the body is skipped
BodyWindows(body, addresses) ==
    LET inside == SelectSeq(addresses, LAMBDA a : a.offset + a.length <= Len(body))
    IN  [i \in DOMAIN inside |->
            SubSeq(body, inside[i].offset + 1, inside[i].offset + inside[i].length)]

get_block_body(d, h) ==
    OptAndThen(StoreGet(d, "BODY_ADDRS", HashBytes(h)),
        LAMBDA serialized_addresses_ :
            OptMap(StoreGet(d, "BODY", HashBytes(h)),
                LAMBDA serialized_body :
                    LET windows == BodyWindows(serialized_body,
                                               Deserialize(serialized_addresses_))
                    IN  [i \in DOMAIN windows |-> DecodeTx(windows[i])]))

get_block(d, h) ==
    LET header == get_header(d, h)
        transactions == get_block_body(d, h)
        uncles == get_block_uncles(d, h)
        proposals == get_block_proposal_txs_ids(d, h)
    IN  IF header = None THEN None
        ELSE IF transactions = None THEN Panic("block transactions must be stored")
        ELSE IF uncles = None THEN Panic("block uncles must be stored")
        ELSE IF proposals = None THEN Panic("block proposal_ids must be stored")
        ELSE Some(BlockOf(header[1], uncles[1], transactions[1], proposals[1]))

get_block_ext(d, h) ==
    OptMap(StoreGet(d, "EXT", HashBytes(h)), LAMBDA raw : Deserialize(raw))

get_block_hash(d, number) ==
    OptMap(StoreGet(d, "INDEX", LeBytes(number)), LAMBDA raw : H256FromSlice(raw))

get_block_number(d, h) ==
    OptMap(StoreGet(d, "INDEX", HashBytes(h)), LAMBDA raw : DeserializeU64(raw))

get_tip_header(d) ==
    OptAndThen(StoreGet(d, "META", META_TIP_HEADER_KEY),
        LAMBDA raw : get_header(d, H256FromSlice(raw)))

get_transaction_address(d, h) ==
    OptMap(StoreGet(d, "TX_ADDR", HashBytes(h)), LAMBDA raw : Deserialize(raw))

get_transaction(d, h) ==
    OptMap(
        OptAndThen(get_transaction_address(d, h),
            LAMBDA a : StorePartialGet(d, "BODY", HashBytes(a.block_hash),
                                       a.offset, a.offset + a.length)),
        LAMBDA serialized_transaction : DecodeTx(serialized_transaction))

(***************************************************************************)
(* DefaultStoreBatch: each method maps the batch's write list to the list  *)
(* with the method's writes appended.                                      *)
(***************************************************************************)
insert_raw(inner, col, key, value) == DbBatchInsert(inner, col, key, value)

insert_serialize(inner, col, key, item) == DbBatchInsert(inner, col, key, Serialize(item))

delete(inner, col, key) == DbBatchDelete(inner, col, key)

insert_block_without_addresses(inner, b) ==
    LET hash == HeaderHash(b.header)
        flat == flat_serialize(b.transactions)
        w1 == insert_serialize(inner, "HEADER", HashBytes(hash), b.header)
        w2 == insert_serialize(w1, "UNCLE", HashBytes(hash), b.uncles)
        w3 == insert_serialize(w2, "PROPOSAL_IDS", HashBytes(hash), b.proposals)
    IN  insert_raw(w3, "BODY", HashBytes(hash), flat.data)

insert_block_without_proposals(inner, b) ==
    LET hash == HeaderHash(b.header)
        flat == flat_serialize(b.transactions)
        w1 == insert_serialize(inner, "HEADER", HashBytes(hash), b.header)
        w2 == insert_serialize(w1, "UNCLE", HashBytes(hash), b.uncles)
        w4 == insert_raw(w2, "BODY", HashBytes(hash), flat.data)
    IN  insert_serialize(w4, "BODY_ADDRS", HashBytes(hash), flat.addresses)

insert_block(inner, b) ==
    LET hash == HeaderHash(b.header)
        flat == flat_serialize(b.transactions)
        w1 == insert_serialize(inner, "HEADER", HashBytes(hash), b.header)
        w2 == insert_serialize(w1, "UNCLE", HashBytes(hash), b.uncles)
        w3 == insert_serialize(w2, "PROPOSAL_IDS", HashBytes(hash), b.proposals)
        w4 == insert_raw(w3, "BODY", HashBytes(hash), flat.data)
    IN  insert_serialize(w4, "BODY_ADDRS", HashBytes(hash), flat.addresses)

insert_block_ext(inner, block_hash, ext) ==
    insert_serialize(inner, "EXT", HashBytes(block_hash), ext)

\* the loop of attach_block over the transactions from position id on
RECURSIVE AttachTransactions(_, _, _, _)
AttachTransactions(inner, b, addresses, id) ==
    IF id > Len(b.transactions) THEN inner
    ELSE AttachTransactions(
            insert_serialize(inner, "TX_ADDR", HashBytes(b.transactions[id].hash),
                TransactionAddress(HeaderHash(b.header), addresses[id].offset,
                                   addresses[id].length)),
            b, addresses, id + 1)

\* every TX_ADDR entry written with the window of the first transaction
RECURSIVE AttachTransactionsFirstWindow(_, _, _, _)
AttachTransactionsFirstWindow(inner, b, addresses, id) ==
    IF id > Len(b.transactions) THEN inner
    ELSE AttachTransactionsFirstWindow(
            insert_serialize(inner, "TX_ADDR", HashBytes(b.transactions[id].hash),
                TransactionAddress(HeaderHash(b.header), addresses[1].offset,
                                   addresses[1].length)),
            b, addresses, id + 1)

attach_block_first_window(inner, b) ==
    LET hash == HeaderHash(b.header)
        w1 == AttachTransactionsFirstWindow(inner, b, serialized_addresses(b.transactions), 1)
        w2 == insert_raw(w1, "INDEX", LeBytes(b.header.number), HashBytes(hash))
    IN  insert_raw(w2, "INDEX", HashBytes(hash), LeBytes(b.header.number))

attach_block_without_hash_index(inner, b) ==
    LET hash == HeaderHash(b.header)
        w1 == AttachTransactions(inner, b, serialized_addresses(b.transactions), 1)
    IN  insert_raw(w1, "INDEX", LeBytes(b.header.number), HashBytes(hash))

attach_block(inner, b) ==
    LET hash == HeaderHash(b.header)
        w1 == AttachTransactions(inner, b, serialized_addresses(b.transactions), 1)
        w2 == insert_raw(w1, "INDEX", LeBytes(b.header.number), HashBytes(hash))
    IN  insert_raw(w2, "INDEX", HashBytes(hash), LeBytes(b.header.number))

\* the loop of detach_block over the transactions
RECURSIVE DetachTransactions(_, _)
DetachTransactions(inner, txs) ==
    IF txs = <<>> THEN inner
    ELSE DetachTransactions(delete(inner, "TX_ADDR", HashBytes(Head(txs).hash)), Tail(txs))

detach_block_keeping_tx_addr(inner, b) ==
    LET w2 == delete(inner, "INDEX", LeBytes(b.header.number))
    IN  delete(w2, "INDEX", HashBytes(HeaderHash(b.header)))

detach_block_keeping_number(inner, b) ==
    delete(DetachTransactions(inner, b.transactions), "INDEX", HashBytes(HeaderHash(b.header)))

detach_block_deleting_body(inner, b) ==
    LET w1 == DetachTransactions(inner, b.transactions)
        w2 == delete(w1, "INDEX", LeBytes(b.header.number))
        w3 == delete(w2, "INDEX", HashBytes(HeaderHash(b.header)))
    IN  delete(w3, "BODY", HashBytes(HeaderHash(b.header)))

detach_block_keeping_hash_index(inner, b) ==
    delete(DetachTransactions(inner, b.transactions), "INDEX", LeBytes(b.header.number))

detach_block(inner, b) ==
    LET w1 == DetachTransactions(inner, b.transactions)
        w2 == delete(w1, "INDEX", LeBytes(b.header.number))
    IN  delete(w2, "INDEX", HashBytes(HeaderHash(b.header)))

insert_tip_header(inner, header) ==
    insert_raw(inner, "META", META_TIP_HEADER_KEY, HashBytes(HeaderHash(header)))

commit_first_write_only(d, inner) == DbBatchCommitFirstWriteOnly(d, inner)

\* DefaultStoreBatch::commit
commit(d, inner) == DbBatchCommit(d, inner)

\* ChainKVStore::init: the writes of its batch
InitExt(genesis) ==
    BlockExt(genesis.header.timestamp, genesis.header.difficulty, 0, Some(TRUE))

init_batch_without_ext(genesis) ==
    LET w1 == insert_block(<<>>, genesis)
        w3 == insert_tip_header(w1, genesis.header)
    IN  attach_block(w3, genesis)

init_batch(genesis) ==
    LET w1 == insert_block(<<>>, genesis)
        w2 == insert_block_ext(w1, HeaderHash(genesis.header), InitExt(genesis))
        w3 == insert_tip_header(w2, genesis.header)
    IN  attach_block(w3, genesis)

(***************************************************************************)
(* The store's state machine: one writer building batches, and init.       *)
(***************************************************************************)
ClosedBatch == [open |-> FALSE, inner |-> <<>>, calls |-> <<>>]
\* nothing has ended since the writer took its batch
NoBatchYet == [ev |-> "none", calls |-> <<>>, pre |-> EmptyDb]

\* an RPC thread that has made no call
IdleThread ==
    [pc |-> "idle", call |-> None, tx |-> None, rtx |-> None, tx_result |-> None,
     seen |-> None, sent |-> FALSE, ret |-> None]

RpcThreads == 1..NumThreads

PoolIdle ==
    /\ threads = [t \in RpcThreads |-> IdleThread]
    /\ pool = {}
    /\ lock = None
    /\ relayed = <<>>
    /\ nreq = 0

StoreIdle ==
    /\ db = EmptyDb
    /\ batch = ClosedBatch
    /\ world = {}
    /\ ncalls = 0
    /\ last = NoBatchYet

CellIdle ==
    /\ cellsA = EmptyMap
    /\ cellsB = EmptyMap
    /\ block = EmptyBlock
    /\ tx = EmptyTx
    /\ asked = None
    /\ status = None
    /\ rtx = None
    /\ capacity = None

\* Transactions of stored blocks: one per hash, of different serialized lengths.
StoreTx(h) == Transaction(h, <<>>, <<>>, [i \in 1..(h - 1) |-> 1])
StoreTxs == {StoreTx(h) : h \in 1..NumStoreTxs}

StoreBlock(n, txs, uncles, proposals) == SealedBlock(n, 10 + n, 1 + n, txs, uncles, proposals)

PlainBlocks ==
    {StoreBlock(n, txs, <<>>, <<>>) : n \in BlockNumbers, txs \in SeqsUpTo(StoreTxs, MaxBlockTxs)}

StoreBlocks ==
    {StoreBlock(n, txs, uncles, proposals) :
        n \in BlockNumbers, txs \in SeqsUpTo(StoreTxs, MaxBlockTxs),
        uncles \in SeqsUpTo({1}, MaxUncles), proposals \in SeqsUpTo({1}, MaxProposals)}

\* What the callers hold: one block of any shape, or two blocks without
\* uncles and proposals.
Worlds ==
    {{b} : b \in StoreBlocks} \cup {{b1, b2} : b1, b2 \in PlainBlocks}

Call(name, b) == [call |-> name, block |-> b]

\* ChainStore::new_batch
NewBatch ==
    /\ ~batch.open
    /\ batch' = [open |-> TRUE, inner |-> <<>>, calls |-> <<>>]
    /\ last' = NoBatchYet
    /\ UNCHANGED <<db, world, ncalls>>

BatchCall(name, b, inner) ==
    /\ batch.open
    /\ ncalls < MaxCalls
    /\ batch' = [batch EXCEPT !.inner = inner, !.calls = Append(@, Call(name, b))]
    /\ ncalls' = ncalls + 1
    /\ UNCHANGED <<db, world, last>>

InsertBlock(b) == BatchCall("insert_block", b, insert_block(batch.inner, b))

InsertBlockExt(b) ==
    BatchCall("insert_block_ext", b,
              insert_block_ext(batch.inner, HeaderHash(b.header), InitExt(b)))

InsertTipHeader(b) ==
    BatchCall("insert_tip_header", b, insert_tip_header(batch.inner, b.header))

AttachBlock(b) == BatchCall("attach_block", b, attach_block(batch.inner, b))

DetachBlock(b) == BatchCall("detach_block", b, detach_block(batch.inner, b))

Ended(ev, calls) == [ev |-> ev, calls |-> calls, pre |-> db]

\* StoreBatch::commit returning Ok
CommitOk ==
    /\ batch.open
    /\ db' = commit(db, batch.inner)
    /\ batch' = ClosedBatch
    /\ last' = Ended("commit_ok", batch.calls)
    /\ UNCHANGED <<world, ncalls>>

\* StoreBatch::commit returning the engine's error
CommitErr ==
    /\ batch.open
    /\ batch' = ClosedBatch
    /\ last' = Ended("commit_err", batch.calls)
    /\ UNCHANGED <<db, world, ncalls>>

\* the batch is dropped without commit
DropBatch ==
    /\ batch.open
    /\ batch' = ClosedBatch
    /\ last' = Ended("drop", batch.calls)
    /\ UNCHANGED <<db, world, ncalls>>

StoreInitOkAddingDifficulty(genesis) ==
    LET old == get_block_ext(db, HeaderHash(genesis.header))
        ext == [InitExt(genesis) EXCEPT !.total_difficulty =
                    IF old = None THEN @ ELSE old[1].total_difficulty + @]
        w1 == insert_block(<<>>, genesis)
        w2 == insert_block_ext(w1, HeaderHash(genesis.header), ext)
        w3 == insert_tip_header(w2, genesis.header)
    IN  /\ ~batch.open
        /\ ncalls < MaxCalls
        /\ db' = commit(db, attach_block(w3, genesis))
        /\ ncalls' = ncalls + 1
        /\ last' = Ended("init_ok", <<Call("init", genesis)>>)
        /\ UNCHANGED <<batch, world>>

\* ChainKVStore::init with its own batch, committed (run while the writer
\* holds no batch)
StoreInitOk(genesis) ==
    /\ ~batch.open
    /\ ncalls < MaxCalls
    /\ db' = commit(db, init_batch(genesis))
    /\ ncalls' = ncalls + 1
    /\ last' = Ended("init_ok", <<Call("init", genesis)>>)
    /\ UNCHANGED <<batch, world>>

\* ChainKVStore::init whose commit returns the engine's error
StoreInitErr(genesis) ==
    /\ ~batch.open
    /\ ncalls < MaxCalls
    /\ ncalls' = ncalls + 1
    /\ last' = Ended("init_err", <<Call("init", genesis)>>)
    /\ UNCHANGED <<db, batch, world>>

InitStore ==
    /\ db = EmptyDb
    /\ batch = ClosedBatch
    /\ world \in Worlds
    /\ ncalls = 0
    /\ last = NoBatchYet
    /\ CellIdle
    /\ PoolIdle

NextStore ==
    \/ NewBatch /\ UNCHANGED <<cellVars, poolVars>>
    \/ \E b \in world : InsertBlock(b) /\ UNCHANGED <<cellVars, poolVars>>
    \/ \E b \in world : InsertBlockExt(b) /\ UNCHANGED <<cellVars, poolVars>>
    \/ \E b \in world : InsertTipHeader(b) /\ UNCHANGED <<cellVars, poolVars>>
    \/ \E b \in world : AttachBlock(b) /\ UNCHANGED <<cellVars, poolVars>>
    \/ \E b \in world : DetachBlock(b) /\ UNCHANGED <<cellVars, poolVars>>
    \/ CommitOk /\ UNCHANGED <<cellVars, poolVars>>
    \/ CommitErr /\ UNCHANGED <<cellVars, poolVars>>
    \/ DropBatch /\ UNCHANGED <<cellVars, poolVars>>
    \/ \E g \in world : StoreInitOk(g) /\ UNCHANGED <<cellVars, poolVars>>
    \/ \E g \in world : StoreInitErr(g) /\ UNCHANGED <<cellVars, poolVars>>

Spec == InitStore /\ [][NextStore]_vars

\* The store once ChainKVStore::init(g) has committed: g is stored and
\* attached; the callers hold g and a different block of g's height.
InitReorg ==
    /\ world \in {w \in Worlds : \E b1, b2 \in w :
                      b1 # b2 /\ b1.header.number = b2.header.number}
    /\ \E g \in world : db = commit(EmptyDb, init_batch(g))
    /\ batch = ClosedBatch
    /\ ncalls = 0
    /\ last = NoBatchYet
    /\ CellIdle
    /\ PoolIdle

SpecReorg == InitReorg /\ [][NextStore]_vars

(***************************************************************************)
(* Input sets of the cell specifications.                                  *)
(***************************************************************************)
DbKeys == {OutPoint(h, 0) : h \in TxHashes}
DbMetas == {CellMeta(c, None, FALSE) : c \in Capacities}
DbEntries == {None} \cup {Some(m) : m \in DbMetas}
Tables == UNION {[K -> DbEntries] : K \in SUBSET DbKeys}

InputLists == SeqsUpTo(InputPts, MaxInputs)
OutputLists == SeqsUpTo(Capacities, MaxOutputs)

\* Transactions of a candidate block (deps play no part in the block provider).
BlockTxs ==
    {Transaction(h, ins, <<>>, outs) : h \in TxHashes, ins \in InputLists, outs \in OutputLists}

\* The hash is the hash of the content: equal hashes, equal transactions.
HashConsistent(txs) ==
    \A i, j \in DOMAIN txs : txs[i].hash = txs[j].hash => txs[i] = txs[j]

Blocks ==
    {CellBlock(n, txs) : n \in BlockNumbers,
                         txs \in {s \in SeqsUpTo(BlockTxs, MaxTxs) : HashConsistent(s)}}

Transactions ==
    {Transaction(1, ins, ds, outs) :
        ins \in InputLists, ds \in SeqsUpTo(InputPts, MaxDeps), outs \in OutputLists}

(***************************************************************************)
(* Provider stacks a caller builds over the state, top first.              *)
(***************************************************************************)
Provider(stack) ==
    CASE stack = "A" -> MemoryDb(cellsA)
      [] stack = "B" -> MemoryDb(cellsB)
      [] stack = "A/B" -> OverlayCellProviderNew(MemoryDb(cellsA), MemoryDb(cellsB))
      [] stack = "block" -> BlockCellProviderNew(block)
      [] stack = "block/B" ->
            OverlayCellProviderNew(BlockCellProviderNew(block), MemoryDb(cellsB))
      [] stack = "tx" -> TransactionCellProviderNew(tx)
      [] stack = "tx/B" ->
            OverlayCellProviderNew(TransactionCellProviderNew(tx), MemoryDb(cellsB))

OverlayStacks == {"A", "B", "A/B"}
BlockStacks == {"block", "block/B"}
TxStacks == {"B", "tx", "tx/B"}

(***************************************************************************)
(* Actions of the cell specifications.                                     *)
(***************************************************************************)
\* provider.get_cell_status(&o)
GetCellStatus(stack, o) ==
    /\ asked = None
    /\ asked' = [op |-> "cell", stack |-> stack, out_point |-> o]
    /\ status' = get_cell_status(Provider(stack), o)
    /\ rtx' = None
    /\ UNCHANGED <<cellsA, cellsB, block, tx, capacity>>
    /\ UNCHANGED <<storeVars, poolVars>>

\* provider.resolve_transaction(&tx)
ResolveTx(stack) ==
    /\ asked = None
    /\ asked' = [op |-> "resolve", stack |-> stack, out_point |-> None]
    /\ rtx' = ResolveTransaction(Provider(stack), tx)
    /\ status' = None
    /\ UNCHANGED <<cellsA, cellsB, block, tx, capacity>>
    /\ UNCHANGED <<storeVars, poolVars>>

\* provider.resolve_transaction(&block.transactions()[i]) during block validation
ResolveBlockTx(stack, i) ==
    /\ asked = None
    /\ i \in DOMAIN block.transactions
    /\ tx' = block.transactions[i]
    /\ asked' = [op |-> "resolve", stack |-> stack, out_point |-> None]
    /\ rtx' = ResolveTransaction(Provider(stack), block.transactions[i])
    /\ status' = None
    /\ UNCHANGED <<cellsA, cellsB, block, capacity>>
    /\ UNCHANGED <<storeVars, poolVars>>

NoCall ==
    /\ asked = None
    /\ status = None
    /\ rtx = None
    /\ capacity = None
    /\ StoreIdle
    /\ PoolIdle

InitOverlay ==
    /\ cellsA \in Tables
    /\ cellsB \in Tables
    /\ block = EmptyBlock
    /\ tx = EmptyTx
    /\ NoCall

NextOverlay ==
    \E stack \in OverlayStacks, o \in InputPts : GetCellStatus(stack, o)

SpecOverlay == InitOverlay /\ [][NextOverlay]_vars

InitBlock ==
    /\ cellsA = EmptyMap
    /\ cellsB \in Tables
    /\ block \in Blocks
    /\ tx = EmptyTx
    /\ NoCall

NextBlock ==
    \/ \E stack \in BlockStacks, o \in InputPts : GetCellStatus(stack, o)
    \/ \E stack \in BlockStacks, i \in 1..MaxTxs : ResolveBlockTx(stack, i)

SpecBlock == InitBlock /\ [][NextBlock]_vars

InitResolve ==
    /\ cellsA = EmptyMap
    /\ cellsB \in Tables
    /\ block = EmptyBlock
    /\ tx \in Transactions
    /\ NoCall

NextResolve ==
    \/ \E stack \in TxStacks : ResolveTx(stack)
    \/ \E stack \in TxStacks, o \in InputPts : GetCellStatus(stack, o)

SpecResolve == InitResolve /\ [][NextResolve]_vars

\* Resolved transactions handed to fee() and inputs_capacity(): any statuses
\* for the inputs, any capacities within the width for cells and outputs.
FeeCapacities == 0..CapacityMax
FeeStatuses == {Dead, Unknown} \cup {Live(CellMeta(c, None, FALSE)) : c \in FeeCapacities}

FeeRtxs ==
    {[transaction |-> Transaction(1, [i \in DOMAIN cells |-> OutPoint(1, 0)], <<>>, outs),
      input_cells |-> cells,
      dep_cells |-> <<>>] :
        cells \in SeqsUpTo(FeeStatuses, MaxFeeInputs),
        outs \in SeqsUpTo(FeeCapacities, MaxFeeOutputs)}

\* rtx.fee()
Fee ==
    /\ asked = None
    /\ asked' = [op |-> "fee", stack |-> None, out_point |-> None]
    /\ capacity' = fee(rtx)
    /\ UNCHANGED <<cellsA, cellsB, block, tx, status, rtx>>
    /\ UNCHANGED <<storeVars, poolVars>>

\* rtx.inputs_capacity()
InputsCapacity ==
    /\ asked = None
    /\ asked' = [op |-> "inputs_capacity", stack |-> None, out_point |-> None]
    /\ capacity' = inputs_capacity(rtx)
    /\ UNCHANGED <<cellsA, cellsB, block, tx, status, rtx>>
    /\ UNCHANGED <<storeVars, poolVars>>

InitFee ==
    /\ cellsA = EmptyMap
    /\ cellsB = EmptyMap
    /\ block = EmptyBlock
    /\ rtx \in FeeRtxs
    /\ tx = rtx.transaction
    /\ asked = None
    /\ status = None
    /\ capacity = None
    /\ StoreIdle
    /\ PoolIdle

NextFee ==
    \/ Fee
    \/ InputsCapacity

SpecFee == InitFee /\ [][NextFee]_vars

(***************************************************************************)
(* PoolRpcImpl (rpc/src/module/pool.rs): send_transaction and              *)
(* get_pool_transaction, called on concurrent RPC threads.  The chain      *)
(* state (its mutex, the pool, the resolver over the pool and the          *)
(* verifier) and the network controller are collaborators.                 *)
(***************************************************************************)
\* A JSON transaction of the request; try_into fails on a malformed one.
JsonTx(t) == [valid |-> TRUE, tx |-> t]
BadJson == [valid |-> FALSE]
TryInto(j) == IF j.valid THEN Ok(j.tx) ELSE Err("parse_error")

\* The transactions clients submit: two that spend the same outpoint, and
\* one without inputs (the request of the curl example).
PoolTx(h, ins) == Transaction(10 + h, ins, <<>>, [i \in 1..h |-> 1])
PoolTxs == {PoolTx(1, <<OutPoint(1, 0)>>), PoolTx(2, <<OutPoint(1, 0)>>), PoolTx(3, <<>>)}
PoolRequests == {JsonTx(t) : t \in PoolTxs} \cup {BadJson}

PoolEntry(t, refs_count, cycles) ==
    [transaction |-> t, refs_count |-> refs_count, cycles |-> cycles]

\* The pool as a cell provider: what a pooled transaction spends is Dead.
PoolCells(entries) ==
    [o \in UNION {{e.transaction.inputs[i] : i \in DOMAIN e.transaction.inputs} : e \in entries}
        |-> None]

\* ChainState::rpc_resolve_tx_from_pool: the transaction's own duplicate
\* counter over the pool over the confirmed store.
rpc_resolve_tx_from_pool(t, entries, store) ==
    ResolveTransaction(
        OverlayCellProviderNew(
            TransactionCellProviderNew(t),
            OverlayCellProviderNew(MemoryDb(PoolCells(entries)), MemoryDb(store))),
        t)

\* ChainState::verify_rtx: a transaction with an input that is not Live is
\* rejected; otherwise the cycles it took are returned.
verify_rtx(r) ==
    IF \A i \in DOMAIN r.input_cells : r.input_cells[i].tag = "Live"
    THEN Ok(Len(r.transaction.inputs))
    ELSE Err("InvalidTx")

\* TxPool::enqueue_tx: false for a transaction the pool already holds.
InPool(entries, h) == \E e \in entries : e.transaction.hash = h
enqueue_tx(entries, entry) ==
    IF InPool(entries, entry.transaction.hash)
    THEN [added |-> FALSE, pool |-> entries]
    ELSE [added |-> TRUE, pool |-> entries \cup {entry}]

\* TxPool::get_tx
get_tx(entries, h) ==
    IF InPool(entries, h)
    THEN Some((CHOOSE e \in entries : e.transaction.hash = h).transaction)
    ELSE None

At(t, pc) == threads[t].pc = pc

\* send_transaction is called; tx.try_into() (pool.rs:36)
SendTransaction(t, j) ==
    /\ At(t, "idle")
    /\ nreq < MaxRequests
    /\ nreq' = nreq + 1
    /\ threads' = [threads EXCEPT ![t] =
          IF TryInto(j).ok
          THEN [IdleThread EXCEPT !.pc = "lock", !.call = "send_transaction",
                                  !.tx = TryInto(j).value]
          ELSE [IdleThread EXCEPT !.call = "send_transaction", !.ret = TryInto(j)]]
    /\ UNCHANGED <<pool, lock, relayed>>

SendLockWithoutWaiting(t) ==
    /\ At(t, "lock")
    /\ lock' = Some(t)
    /\ threads' = [threads EXCEPT ![t].pc = "resolve"]
    /\ UNCHANGED <<pool, relayed, nreq>>

\* self.shared.chain_state().lock() (pool.rs:38)
SendLock(t) ==
    /\ At(t, "lock")
    /\ lock = None
    /\ lock' = Some(t)
    /\ threads' = [threads EXCEPT ![t].pc = "resolve"]
    /\ UNCHANGED <<pool, relayed, nreq>>

\* chain_state.rpc_resolve_tx_from_pool(&tx, &chain_state.tx_pool()) (pool.rs:39)
SendResolve(t) ==
    /\ At(t, "resolve")
    /\ threads' = [threads EXCEPT
          ![t].pc = "verify",
          ![t].rtx = rpc_resolve_tx_from_pool(threads[t].tx, pool, cellsB),
          ![t].seen = Some(pool)]
    /\ UNCHANGED <<pool, lock, relayed, nreq>>

\* chain_state.verify_rtx(&rtx, max_block_cycles) (pool.rs:40)
SendVerify(t) ==
    /\ At(t, "verify")
    /\ threads' = [threads EXCEPT
          ![t].pc = "match", ![t].tx_result = verify_rtx(threads[t].rtx)]
    /\ UNCHANGED <<pool, lock, relayed, nreq>>

SendMatchNeverBroadcasting(t) ==
    LET me == threads[t]
        r == enqueue_tx(pool, PoolEntry(me.tx, 0, Some(me.tx_result.value)))
    IN  /\ At(t, "match")
        /\ IF ~me.tx_result.ok
           THEN /\ threads' = [threads EXCEPT ![t].pc = "return",
                                              ![t].ret = Err("Invalid")]
                /\ pool' = pool
           ELSE /\ pool' = r.pool
                /\ threads' = [threads EXCEPT ![t].pc = "return", ![t].ret = Ok(me.tx.hash)]
        /\ UNCHANGED <<lock, relayed, nreq>>

SendMatchEnqueuingInvalid(t) ==
    LET me == threads[t]
        r == enqueue_tx(pool, PoolEntry(me.tx, 0,
                 IF me.tx_result.ok THEN Some(me.tx_result.value) ELSE None))
    IN  /\ At(t, "match")
        /\ pool' = r.pool
        /\ threads' =
              IF ~me.tx_result.ok
              THEN [threads EXCEPT ![t].pc = "return", ![t].ret = Err("Invalid")]
              ELSE IF r.added
              THEN [threads EXCEPT ![t].pc = "broadcast"]
              ELSE [threads EXCEPT ![t].pc = "return", ![t].ret = Ok(me.tx.hash)]
        /\ UNCHANGED <<lock, relayed, nreq>>

\* match tx_result: the error, or enqueue_tx of the new entry (pool.rs:42-47)
SendMatch(t) ==
    LET me == threads[t]
        r == enqueue_tx(pool, PoolEntry(me.tx, 0, Some(me.tx_result.value)))
    IN  /\ At(t, "match")
        /\ IF ~me.tx_result.ok
           THEN /\ threads' = [threads EXCEPT ![t].pc = "return",
                                              ![t].ret = Err("Invalid")]
                /\ pool' = pool
           ELSE /\ pool' = r.pool
                /\ threads' =
                      IF r.added
                      THEN [threads EXCEPT ![t].pc = "broadcast"]
                      ELSE [threads EXCEPT ![t].pc = "return", ![t].ret = Ok(me.tx.hash)]
        /\ UNCHANGED <<lock, relayed, nreq>>

\* network_controller.broadcast(RELAY, build_transaction(tx, cycles)) (pool.rs:52-58)
SendBroadcast(t) ==
    /\ At(t, "broadcast")
    /\ relayed' = Append(relayed, [tx |-> threads[t].tx, cycles |-> threads[t].tx_result.value])
    /\ threads' = [threads EXCEPT
          ![t].pc = "return", ![t].sent = TRUE, ![t].ret = Ok(threads[t].tx.hash)]
    /\ UNCHANGED <<pool, lock, nreq>>

\* send_transaction returns and the guard chain_state is dropped (pool.rs:60)
SendReturn(t) ==
    /\ At(t, "return")
    /\ lock' = None
    /\ threads' = [threads EXCEPT ![t].pc = "idle"]
    /\ UNCHANGED <<pool, relayed, nreq>>

\* get_pool_transaction is called (pool.rs:63-64)
GetPoolTransaction(t, h) ==
    /\ At(t, "idle")
    /\ nreq < MaxRequests
    /\ nreq' = nreq + 1
    /\ threads' = [threads EXCEPT ![t] =
          [IdleThread EXCEPT !.pc = "get_lock", !.call = "get_pool_transaction", !.tx = h]]
    /\ UNCHANGED <<pool, lock, relayed>>

\* self.shared.chain_state().lock() (pool.rs:65-68)
GetLock(t) ==
    /\ At(t, "get_lock")
    /\ lock = None
    /\ lock' = Some(t)
    /\ threads' = [threads EXCEPT ![t].pc = "get_read"]
    /\ UNCHANGED <<pool, relayed, nreq>>

\* .tx_pool().get_tx(&id), the guard dropped on return (pool.rs:69-71)
GetRead(t) ==
    /\ At(t, "get_read")
    /\ lock' = None
    /\ threads' = [threads EXCEPT
          ![t].pc = "idle", ![t].seen = Some(pool), ![t].ret = Ok(get_tx(pool, threads[t].tx))]
    /\ UNCHANGED <<pool, relayed, nreq>>

InitPool ==
    /\ cellsA = EmptyMap
    /\ cellsB \in Tables
    /\ block = EmptyBlock
    /\ tx = EmptyTx
    /\ NoCall

NextPool ==
    \/ \E t \in RpcThreads, j \in PoolRequests : SendTransaction(t, j) /\ UNCHANGED <<cellVars, storeVars>>
    \/ \E t \in RpcThreads : SendLock(t) /\ UNCHANGED <<cellVars, storeVars>>
    \/ \E t \in RpcThreads : SendResolve(t) /\ UNCHANGED <<cellVars, storeVars>>
    \/ \E t \in RpcThreads : SendVerify(t) /\ UNCHANGED <<cellVars, storeVars>>
    \/ \E t \in RpcThreads : SendMatch(t) /\ UNCHANGED <<cellVars, storeVars>>
    \/ \E t \in RpcThreads : SendBroadcast(t) /\ UNCHANGED <<cellVars, storeVars>>
    \/ \E t \in RpcThreads : SendReturn(t) /\ UNCHANGED <<cellVars, storeVars>>
    \/ \E t \in RpcThreads, p \in PoolTxs : GetPoolTransaction(t, p.hash) /\ UNCHANGED <<cellVars, storeVars>>
    \/ \E t \in RpcThreads : GetLock(t) /\ UNCHANGED <<cellVars, storeVars>>
    \/ \E t \in RpcThreads : GetRead(t) /\ UNCHANGED <<cellVars, storeVars>>

SpecPool == InitPool /\ [][NextPool]_vars

(***************************************************************************)
(* Claims about the cell providers and the resolver.                       *)
(***************************************************************************)
CellAsked(stack) == asked # None /\ asked.op = "cell" /\ asked.stack = stack
Resolved == asked # None /\ asked.op = "resolve"

\* C1: OverlayCellProvider(A, B).cell(o) is A.cell(o) whenever A.cell(o) is
\* Live or Dead and is B.cell(o) when A.cell(o) is Unknown; a cell Live in B
\* and Dead in A resolves to Dead, and a Live result carries A's metadata.
C1_OverlayComposition ==
    CellAsked("A/B") =>
        LET a == MemoryDbCell(cellsA, asked.out_point)
            b == MemoryDbCell(cellsB, asked.out_point)
        IN  /\ a \in {Dead} \cup {Live(m) : m \in DbMetas} => status = a
            /\ a = Unknown => status = b
            /\ (a = Dead /\ is_live(b)) => status = Dead
            /\ is_live(status) /\ is_live(a) => status.meta = a.meta

C1_Witness ==
    /\ CellAsked("A/B")
    /\ MemoryDbCell(cellsA, asked.out_point) = Dead
    /\ is_live(MemoryDbCell(cellsB, asked.out_point))
    /\ status = Dead

\* The inputs of the block that name outpoint o, as <<transaction, input>> positions.
Spenders(b, o) ==
    {ij \in {<<i, j>> : i \in DOMAIN b.transactions, j \in 1..MaxInputs} :
        /\ ij[2] \in DOMAIN b.transactions[ij[1]].inputs
        /\ b.transactions[ij[1]].inputs[ij[2]] = o}

DoubleSpent(b, o) == Cardinality(Spenders(b, o)) >= 2

\* C8: an outpoint that is the previous_output of two or more inputs of the
\* block (of one transaction or of several) is Dead under
\* BlockCellProvider(block) and under an overlay with the block provider on
\* top, whatever the provider below reports; so is every resolved input
\* that spends it.
C8_BlockDoubleSpendDead ==
    /\ \A stack \in BlockStacks :
          CellAsked(stack) /\ DoubleSpent(block, asked.out_point) => status = Dead
    /\ Resolved /\ asked.stack \in BlockStacks =>
          \A j \in DOMAIN rtx.input_cells :
              DoubleSpent(block, tx.inputs[j]) => rtx.input_cells[j] = Dead

C8_Witness ==
    /\ CellAsked("block/B")
    /\ \E s1, s2 \in Spenders(block, asked.out_point) : s1[1] # s2[1]
    /\ is_live(MemoryDbCell(cellsB, asked.out_point))
    /\ status = Dead

\* C9: resolve_transaction(tx) under provider p returns no input cells for a
\* cellbase and otherwise one per input, input_cells[i] = p.cell(inputs[i]);
\* dep_cells has one entry per dep, dep_cells[j] = p.cell(dep_pts[j]), Dead
\* and Unknown deps included; the result's transaction is tx.
C9_ResolverPositional ==
    Resolved =>
        LET p == Provider(asked.stack)
        IN  /\ rtx.transaction = tx
            /\ TxIsCellbase(tx) => Len(rtx.input_cells) = 0
            /\ ~TxIsCellbase(tx) =>
                  /\ Len(rtx.input_cells) = Len(tx.inputs)
                  /\ \A i \in DOMAIN tx.inputs : rtx.input_cells[i] = Cell(p, tx.inputs[i])
            /\ Len(rtx.dep_cells) = Len(tx.deps)
            /\ \A j \in DOMAIN tx.deps : rtx.dep_cells[j] = Cell(p, tx.deps[j])

C9_Witness ==
    /\ Resolved
    /\ Len(tx.inputs) = 2
    /\ Len(rtx.input_cells) = 2
    /\ is_live(rtx.input_cells[1])
    /\ Len(rtx.dep_cells) = 1
    /\ rtx.dep_cells[1] = Dead

\* C10: for every resolved transaction, input_cells is empty exactly when the
\* transaction is a cellbase: ResolvedTransaction::is_cellbase() agrees with
\* Transaction::is_cellbase(), also for a transaction that declares no input.
C10_ResolvedCellbaseAgrees ==
    Resolved => (RtxIsCellbase(rtx) <=> TxIsCellbase(tx))

RECURSIVE Sum(_)
Sum(caps) == IF caps = <<>> THEN 0 ELSE Head(caps) + Sum(Tail(caps))

\* The unbounded sum of the capacities of the Live cells among cells.
LiveSum(cells) ==
    Sum([i \in DOMAIN cells |->
            IF cells[i].tag = "Live" THEN cells[i].meta.cell_output ELSE 0])

Called(op) == asked # None /\ asked.op = op

\* C11: inputs_capacity() is the checked sum of the capacities of the Live
\* input cells, Dead and Unknown inputs adding nothing and raising no error;
\* fee() is max(0, inputs_capacity - outputs_capacity); when the input sum or
\* the output sum is beyond the representable range the result is the
\* overflow error, and no result is a wrapped-around value.
C11_FeeCheckedArithmetic ==
    LET ins == LiveSum(rtx.input_cells)
        outs == Sum(rtx.transaction.outputs)
    IN  /\ Called("inputs_capacity") =>
              capacity = IF ins > CapacityMax THEN Overflow ELSE Ok(ins)
        /\ Called("fee") =>
              capacity = IF ins > CapacityMax \/ outs > CapacityMax THEN Overflow
                         ELSE IF ins > outs THEN Ok(ins - outs) ELSE Ok(0)

C11_Witness ==
    /\ Called("fee")
    /\ \E i \in DOMAIN rtx.input_cells : rtx.input_cells[i] = Dead
    /\ LiveSum(rtx.input_cells) < Sum(rtx.transaction.outputs)
    /\ Sum(rtx.transaction.outputs) <= CapacityMax
    /\ capacity = Ok(0)

\* The outpoints some input of the block names.
SpentInBlock(b) ==
    UNION {{b.transactions[i].inputs[j] : j \in DOMAIN b.transactions[i].inputs} :
              i \in DOMAIN b.transactions}

\* The positions (from 0) of the block's transactions of hash h.
PositionsOf(b, h) == {i - 1 : i \in {k \in DOMAIN b.transactions : b.transactions[k].hash = h}}

Largest(S) == CHOOSE x \in S : \A y \in S : y <= x

\* C18 as claimed: the block provider's counter holds, for every outpoint
\* an input of the block names, its number of occurrences, and cell(o) is
\* Dead for every outpoint named by at least one input, one named exactly
\* once included, also over a store that answers Live.
C18_SpentOnceIsDead ==
    /\ \A stack \in BlockStacks :
          (CellAsked(stack) /\ Cardinality(Spenders(block, asked.out_point)) >= 1)
              => status = Dead
    /\ (asked # None /\ asked.stack \in BlockStacks) =>
          \A o \in SpentInBlock(block) :
              BlockCellProviderNew(block).duplicate_inputs_counter[o]
                  = Cardinality(Spenders(block, o))

\* C18 (amended): the counter holds, for every outpoint an input of the
\* block names, its number of occurrences after the first; cell(o) is Dead
\* by this rule exactly for the outpoints named by two or more inputs.  An
\* outpoint named exactly once is not shadowed: unless the block mints it,
\* the block provider answers Unknown and an overlay shows the store's answer.
C18_DeadIffSpentTwice ==
    /\ (asked # None /\ asked.stack \in BlockStacks) =>
          LET counter == BlockCellProviderNew(block).duplicate_inputs_counter
          IN  /\ DOMAIN counter = SpentInBlock(block)
              /\ \A o \in SpentInBlock(block) :
                    counter[o] = Cardinality(Spenders(block, o)) - 1
    /\ CellAsked("block") => (status = Dead <=> DoubleSpent(block, asked.out_point))
    /\ (/\ CellAsked("block/B")
        /\ Cardinality(Spenders(block, asked.out_point)) = 1
        /\ PositionsOf(block, asked.out_point.tx_hash) = {})
          => status = MemoryDbCell(cellsB, asked.out_point)

C18_Witness ==
    /\ CellAsked("block/B")
    /\ Cardinality(Spenders(block, asked.out_point)) = 1
    /\ PositionsOf(block, asked.out_point.tx_hash) = {}
    /\ is_live(MemoryDbCell(cellsB, asked.out_point))
    /\ is_live(status)

\* What the output rule gives for outpoint o read from the transaction at
\* position i of the block.
MintedAt(b, o, i) ==
    LET outputs == b.transactions[i + 1].outputs
    IN  IF o.index < Len(outputs)
        THEN Live(CellMeta(outputs[o.index + 1], Some(b.header.number), i = 0))
        ELSE Unknown

\* C19 as claimed: for an outpoint o the duplicate-input rule does not make
\* Dead, if o.tx_hash is the hash of the transaction at position i, cell(o)
\* is Live with that transaction's outputs[o.index], the block's number and
\* cellbase = (i = 0) when o.index is within the outputs and Unknown when
\* not; it is Unknown when o.tx_hash is no transaction of the block.
C19_LiveFromAnyPosition ==
    (CellAsked("block") /\ ~DoubleSpent(block, asked.out_point)) =>
        /\ \A i \in PositionsOf(block, asked.out_point.tx_hash) :
              status = MintedAt(block, asked.out_point, i)
        /\ PositionsOf(block, asked.out_point.tx_hash) = {} => status = Unknown

\* C19 (amended): the same with i the last position of a transaction of
\* hash o.tx_hash (the only one when the block's transactions have distinct
\* hashes); a cell the block mints is Live under an overlay with the block
\* provider on top, also when the store answers Unknown.
C19_LiveFromLastPosition ==
    /\ (CellAsked("block") /\ ~DoubleSpent(block, asked.out_point)) =>
          LET at == PositionsOf(block, asked.out_point.tx_hash)
          IN  status = IF at = {} THEN Unknown
                       ELSE MintedAt(block, asked.out_point, Largest(at))
    /\ (/\ CellAsked("block/B")
        /\ ~DoubleSpent(block, asked.out_point)
        /\ PositionsOf(block, asked.out_point.tx_hash) # {}
        /\ asked.out_point.index
              < Len(block.transactions[Largest(PositionsOf(block, asked.out_point.tx_hash)) + 1].outputs))
          => status = MintedAt(block, asked.out_point,
                               Largest(PositionsOf(block, asked.out_point.tx_hash)))

C19_Witness ==
    /\ CellAsked("block/B")
    /\ ~DoubleSpent(block, asked.out_point)
    /\ PositionsOf(block, asked.out_point.tx_hash) = {1}
    /\ MemoryDbCell(cellsB, asked.out_point) = Unknown
    /\ is_live(status)
    /\ ~status.meta.cellbase
    /\ status.meta.block_number = Some(block.header.number)

\* Input j of transaction t names an outpoint that another input of t names too.
Repeated(t, j) == \E k \in DOMAIN t.inputs : k # j /\ t.inputs[k] = t.inputs[j]
FirstOfRepeated(t, j) ==
    Repeated(t, j) /\ \A k \in DOMAIN t.inputs : t.inputs[k] = t.inputs[j] => j <= k

DuplicateStacks == {"tx", "tx/B"}

\* The view below the duplicate-counter provider of the stack.
Underlying(stack, o) == IF stack = "tx/B" THEN MemoryDbCell(cellsB, o) ELSE Unknown

Occurrences(t, o) == Cardinality({j \in DOMAIN t.inputs : t.inputs[j] = o})

\* C21: TransactionCellProvider(tx).cell(o) is Dead exactly when more than
\* one input of tx names o and Unknown otherwise, never Live; resolving tx
\* through OverlayCellProvider(TransactionCellProvider(tx), store) gives Dead
\* for every input whose outpoint tx names more than once, whatever the
\* store reports, and the store's answer for every other input and for
\* every dep that is not such an outpoint (a cellbase has no input cells).
C21_TransactionProviderDuplicates ==
    /\ CellAsked("tx") =>
          status = IF Occurrences(tx, asked.out_point) > 1 THEN Dead ELSE Unknown
    /\ (Resolved /\ asked.stack = "tx/B") =>
          /\ ~TxIsCellbase(tx) => DOMAIN rtx.input_cells = DOMAIN tx.inputs
          /\ \A j \in DOMAIN rtx.input_cells :
                rtx.input_cells[j] =
                    IF Occurrences(tx, tx.inputs[j]) > 1 THEN Dead
                    ELSE MemoryDbCell(cellsB, tx.inputs[j])
          /\ \A k \in DOMAIN tx.deps :
                Occurrences(tx, tx.deps[k]) <= 1 =>
                    rtx.dep_cells[k] = MemoryDbCell(cellsB, tx.deps[k])

C21_Witness ==
    /\ Resolved
    /\ asked.stack = "tx/B"
    /\ Len(tx.inputs) = 2
    /\ tx.inputs[1] = tx.inputs[2]
    /\ Len(tx.deps) = 1
    /\ tx.deps[1] # tx.inputs[1]
    /\ MemoryDbCell(cellsB, tx.inputs[1]) = Unknown
    /\ is_live(MemoryDbCell(cellsB, tx.deps[1]))
    /\ rtx.input_cells = <<Dead, Dead>>
    /\ is_live(rtx.dep_cells[1])

(***************************************************************************)
(* Claims about the chain store.                                           *)
(***************************************************************************)
Range(seq) == {seq[i] : i \in DOMAIN seq}

Made(calls, name, b) == \E i \in DOMAIN calls : calls[i] = Call(name, b)

\* the batch of `last` ended with a successful commit of the writer's batch
Committed == last.ev = "commit_ok"

\* The effect the writes of inner have on key of column col, given the
\* content d before: the last write on the key decides; without one the key
\* is as before.
WritesOn(inner, col, key) ==
    {i \in DOMAIN inner : inner[i].col = col /\ inner[i].key = key}

LastWriteOn(inner, col, key) ==
    inner[CHOOSE i \in WritesOn(inner, col, key) :
            \A j \in WritesOn(inner, col, key) : j <= i]

KeysOf(inner, col) == {inner[i].key : i \in {j \in DOMAIN inner : inner[j].col = col}}

AllOrNothing(before, after, inner) ==
    \/ after = before
    \/ \A col \in Columns :
          \A key \in DOMAIN before[col] \cup DOMAIN after[col] \cup KeysOf(inner, col) :
              IF WritesOn(inner, col, key) = {}
              THEN DbRead(after, col, key) = DbRead(before, col, key)
              ELSE IF LastWriteOn(inner, col, key).op = "insert"
              THEN DbRead(after, col, key) = Some(LastWriteOn(inner, col, key).value)
              ELSE DbRead(after, col, key) = None

\* C2: a batch is atomic for readers.  While the writer builds its batch,
\* when the commit fails and when the batch is dropped, what reads see does
\* not change; a successful commit makes every write of the batch visible
\* in the one step; no step shows a part of a batch.
C2_BatchAtomic ==
    [][ /\ batch'.open => db' = db
        /\ (batch.open /\ ~batch'.open /\ last'.ev \in {"commit_err", "drop"}) => db' = db
        /\ (batch.open /\ ~batch'.open) => AllOrNothing(db, db', batch.inner)
        /\ (batch.open /\ ~batch'.open /\ last'.ev = "commit_ok") =>
              \A i \in DOMAIN batch.inner :
                  LET w == batch.inner[i]
                  IN  DbRead(db', w.col, w.key) =
                        IF LastWriteOn(batch.inner, w.col, w.key).op = "insert"
                        THEN Some(LastWriteOn(batch.inner, w.col, w.key).value)
                        ELSE None ]_vars

C2_Witness ==
    /\ Committed
    /\ Len(last.calls) >= 2
    /\ Made(last.calls, "insert_block", last.calls[1].block)
    /\ Made(last.calls, "attach_block", last.calls[1].block)
    /\ db # last.pre
    /\ get_block_number(db, HeaderHash(last.calls[1].block.header)) # None
    /\ get_header(db, HeaderHash(last.calls[1].block.header)) # None

\* The tip pointer in META, as a hash.
TipHash(d) ==
    OptMap(StoreGet(d, "META", META_TIP_HEADER_KEY), LAMBDA raw : H256FromSlice(raw))

\* Block b is stored and indexed for a reader of d.
StoredAndIndexed(d, b) ==
    LET h == HeaderHash(b.header)
    IN  /\ get_header(d, h) = Some(b.header)
        /\ get_block_body(d, h) = Some(b.transactions)
        /\ get_block_number(d, h) = Some(b.header.number)
        /\ get_block_hash(d, b.header.number) = Some(h)
        /\ \A t \in Range(b.transactions) :
              /\ get_transaction_address(d, t.hash) # None
              /\ get_transaction_address(d, t.hash)[1].block_hash = h

\* C3 as claimed: in every state a reader can observe, a tip pointer that
\* names h comes with the header and body of h and with the INDEX and
\* TX_ADDR entries of h.
C3_TipAlwaysComplete ==
    TipHash(db) # None =>
        \E b \in world : TipHash(db) = Some(HeaderHash(b.header)) /\ StoredAndIndexed(db, b)

\* The calls are, like those of init's batch, insert_block(b),
\* insert_tip_header(b.header) and attach_block(b), with nothing for
\* another block and no detach_block.
InitShaped(calls, b) ==
    \/ calls = <<Call("init", b)>>
    \/ /\ Made(calls, "insert_block", b)
       /\ Made(calls, "insert_tip_header", b)
       /\ Made(calls, "attach_block", b)
       /\ \A i \in DOMAIN calls : calls[i].block = b /\ calls[i].call # "detach_block"

\* C3 (amended): right after the commit of a batch that, like init's, holds
\* insert_block(b), insert_tip_header(b.header) and attach_block(b) and
\* nothing else but insert_block_ext, the tip names h(b) and the header,
\* the body, the INDEX entries and the TX_ADDR entries of b are there.
C3_TipCompleteAfterInitShapedBatch ==
    \A b \in world :
        (last.ev \in {"commit_ok", "init_ok"} /\ InitShaped(last.calls, b)) =>
            /\ TipHash(db) = Some(HeaderHash(b.header))
            /\ StoredAndIndexed(db, b)

C3_Witness ==
    \E b \in world :
        /\ last.ev = "init_ok"
        /\ last.calls = <<Call("init", b)>>
        /\ last.pre # EmptyDb
        /\ Len(b.transactions) = 2
        /\ get_tip_header(db) = Some(b.header)
        /\ StoredAndIndexed(db, b)

\* C4: right after the commit of a batch that holds insert_block(b),
\* get_block(h(b)) is b: header, uncles, proposals and the transactions in
\* their order; attach_block plays no part.
C4_InsertGetRoundTrip ==
    \A b \in world :
        (Committed /\ Made(last.calls, "insert_block", b)) =>
            get_block(db, HeaderHash(b.header)) = Some(b)

C4_Witness ==
    \E b \in world :
        /\ Committed
        /\ last.calls = <<Call("insert_block", b)>>
        /\ Len(b.transactions) = 2
        /\ b.transactions[1] # b.transactions[2]
        /\ b.uncles # <<>>
        /\ b.proposals # <<>>
        /\ get_block(db, HeaderHash(b.header)) = Some(b)

\* C5 as claimed: a batch of attach_block(b) then detach_block(b) leaves
\* TX_ADDR and INDEX as they were, whatever they held.
C5_AttachDetachRestores ==
    \A b \in world :
        (Committed /\ last.calls = <<Call("attach_block", b), Call("detach_block", b)>>) =>
            /\ db["TX_ADDR"] = last.pre["TX_ADDR"]
            /\ db["INDEX"] = last.pre["INDEX"]

\* The keys attach_block(b) writes are free in d.
AttachKeysFree(d, b) ==
    /\ StoreGet(d, "INDEX", LeBytes(b.header.number)) = None
    /\ StoreGet(d, "INDEX", HashBytes(HeaderHash(b.header))) = None
    /\ \A t \in Range(b.transactions) : StoreGet(d, "TX_ADDR", HashBytes(t.hash)) = None

\* C5 (amended): a batch of attach_block(b) then detach_block(b) leaves
\* TX_ADDR and INDEX as they were when, before it, INDEX held no entry for
\* b's number or hash and TX_ADDR none for a transaction hash of b.
C5_AttachDetachRestoresFreeKeys ==
    \A b \in world :
        (/\ Committed
         /\ last.calls = <<Call("attach_block", b), Call("detach_block", b)>>
         /\ AttachKeysFree(last.pre, b)) =>
            /\ db["TX_ADDR"] = last.pre["TX_ADDR"]
            /\ db["INDEX"] = last.pre["INDEX"]

C5_Witness ==
    \E b \in world :
        /\ Committed
        /\ last.calls = <<Call("attach_block", b), Call("detach_block", b)>>
        /\ AttachKeysFree(last.pre, b)
        /\ b.transactions # <<>>
        /\ DOMAIN last.pre["INDEX"] # {}
        /\ db["TX_ADDR"] = last.pre["TX_ADDR"]
        /\ db["INDEX"] = last.pre["INDEX"]

\* Block b was attached by a committed attach_block and not detached since:
\* attach_block(b) writes INDEX[h(b)] and only detach_block(b) deletes it.
Attached(d, b) == get_block_number(d, HeaderHash(b.header)) # None

\* C6 as claimed: get_transaction(h) returns tx exactly when tx, of hash h,
\* is in the body of a block that is attached.
C6_RetrievableIffAttached ==
    \A t \in StoreTxs :
        (get_transaction(db, t.hash) = Some(t))
            <=> (\E b \in world : Attached(db, b) /\ t \in Range(b.transactions))

\* C6 (amended): get_transaction(h) returns a transaction exactly when
\* TX_ADDR holds an entry for h and the body of the block it names is
\* stored; the transaction returned then has hash h, equals the one stored
\* in that block, and that block is attached and not detached since.  A
\* block only inserted, or detached, adds no TX_ADDR entry.
C6_RetrievableIffAddressedAndStored ==
    \A t \in StoreTxs :
        LET a == get_transaction_address(db, t.hash)
            got == get_transaction(db, t.hash)
        IN  /\ got # None <=>
                  (a # None /\ StoreGet(db, "BODY", HashBytes(a[1].block_hash)) # None)
            /\ got # None =>
                  /\ got = Some(t)
                  /\ \E b \in world :
                        /\ a[1].block_hash = HeaderHash(b.header)
                        /\ t \in Range(b.transactions)
                        /\ Attached(db, b)
            /\ (\A b \in world : t \in Range(b.transactions) => ~Attached(db, b)) => got = None

C6_Witness ==
    \E b \in world :
        /\ Len(b.transactions) = 2
        /\ b.transactions[1] # b.transactions[2]
        /\ Attached(db, b)
        /\ get_transaction(db, b.transactions[2].hash) = Some(b.transactions[2])
        /\ get_transaction_address(db, b.transactions[2].hash)[1].offset > 0

\* C7: whenever get_block_hash(n) is defined, get_block_number of that hash
\* is defined and is n.
C7_BidirectionalIndex ==
    \A n \in BlockNumbers :
        get_block_hash(db, n) # None =>
            get_block_number(db, get_block_hash(db, n)[1]) = Some(n)

C7_Witness ==
    \E b1, b2 \in world :
        /\ b1 # b2
        /\ b1.header.number = b2.header.number
        /\ Attached(db, b1)
        /\ get_block_hash(db, b2.header.number) = Some(HeaderHash(b2.header))
        /\ get_block_number(db, HeaderHash(b2.header)) = Some(b2.header.number)

InitDone(g) == last.ev = "init_ok" /\ last.calls = <<Call("init", g)>>

\* C12: after init(genesis) succeeds on an empty store, get_block_hash of
\* the genesis number is h(genesis), get_block_number(h(genesis)) is that
\* number, get_tip_header() is the genesis header, get_block(h(genesis)) is
\* genesis, and get_block_ext(h(genesis)) has total_difficulty =
\* header.difficulty, received_at = header.timestamp, total_uncles_count = 0
\* and txs_verified = Some(true).
C12_GenesisPersisted ==
    \A g \in world :
        (InitDone(g) /\ last.pre = EmptyDb) =>
            LET h == HeaderHash(g.header)
                ext == get_block_ext(db, h)
            IN  /\ get_block_hash(db, g.header.number) = Some(h)
                /\ get_block_number(db, h) = Some(g.header.number)
                /\ get_tip_header(db) = Some(g.header)
                /\ get_block(db, h) = Some(g)
                /\ ext # None
                /\ ext[1].total_difficulty = g.header.difficulty
                /\ ext[1].received_at = g.header.timestamp
                /\ ext[1].total_uncles_count = 0
                /\ ext[1].txs_verified = Some(TRUE)

C12_Witness ==
    \E g \in world :
        /\ InitDone(g)
        /\ last.pre = EmptyDb
        /\ Len(g.transactions) = 2
        /\ g.header.number = 0
        /\ get_block_hash(db, 0) = Some(HeaderHash(g.header))
        /\ get_block_ext(db, HeaderHash(g.header)) = Some(InitExt(g))

\* C13: init(g) run a second time right after init(g) leaves every column of
\* the store as the first left it.
C13_InitIdempotent ==
    [][ \A g \in world :
          (InitDone(g) /\ ncalls' = ncalls + 1 /\ last'.ev = "init_ok" /\ last'.calls = last.calls)
              => db' = db ]_vars

\* init(g) has just succeeded for the second time in a row.
C13_Witness ==
    \E g \in world :
        /\ InitDone(g)
        /\ last.pre = db
        /\ db = commit(EmptyDb, init_batch(g))
        /\ g.transactions # <<>>

\* C14: a committed detach_block(b) deletes only the TX_ADDR entries of b's
\* transactions and the two INDEX entries of b; HEADER, UNCLE, PROPOSAL_IDS,
\* BODY, BODY_ADDRS, EXT and META are as before, and a block b that
\* get_block returned before is still returned.
DetachKeys(col, b) ==
    IF col = "TX_ADDR" THEN {HashBytes(t.hash) : t \in Range(b.transactions)}
    ELSE IF col = "INDEX" THEN {LeBytes(b.header.number), HashBytes(HeaderHash(b.header))}
    ELSE {}

C14_DetachFrame ==
    \A b \in world :
        (Committed /\ last.calls = <<Call("detach_block", b)>>) =>
            /\ \A col \in Columns :
                  /\ DOMAIN db[col] = DOMAIN last.pre[col] \ DetachKeys(col, b)
                  /\ \A k \in DOMAIN db[col] : db[col][k] = last.pre[col][k]
            /\ get_block(last.pre, HeaderHash(b.header)) = Some(b)
                  => get_block(db, HeaderHash(b.header)) = Some(b)

C14_Witness ==
    \E b \in world :
        /\ Committed
        /\ last.calls = <<Call("detach_block", b)>>
        /\ b.transactions # <<>>
        /\ get_block_number(last.pre, HeaderHash(b.header)) # None
        /\ get_block_number(db, HeaderHash(b.header)) = None
        /\ get_transaction(last.pre, b.transactions[1].hash) # None
        /\ get_transaction(db, b.transactions[1].hash) = None
        /\ get_block(db, HeaderHash(b.header)) = Some(b)

OnlyCall(name, b) == Committed /\ last.calls = <<Call(name, b)>>

TxAddrsPresent(d, b) ==
    \A t \in Range(b.transactions) :
        /\ get_transaction_address(d, t.hash) # None
        /\ get_transaction_address(d, t.hash)[1].block_hash = HeaderHash(b.header)

TxAddrsAbsent(d, b) ==
    \A t \in Range(b.transactions) : get_transaction_address(d, t.hash) = None

\* C15 as claimed: EXT[h(b)] and the TX_ADDR entries of b's transactions
\* exist once attach_block(b) is committed and are absent once
\* detach_block(b) is committed.
C15_ExtAndTxAddrFollowAttach ==
    \A b \in world :
        /\ OnlyCall("attach_block", b) =>
              get_block_ext(db, HeaderHash(b.header)) # None /\ TxAddrsPresent(db, b)
        /\ OnlyCall("detach_block", b) =>
              get_block_ext(db, HeaderHash(b.header)) = None /\ TxAddrsAbsent(db, b)

\* C15 (amended): the TX_ADDR entries of b's transactions exist once
\* attach_block(b) is committed and are absent once detach_block(b) is
\* committed; EXT[h(b)] is written by insert_block_ext alone, and neither
\* attach_block nor detach_block changes the EXT column.
C15_TxAddrFollowsAttachExtDoesNot ==
    \A b \in world :
        /\ OnlyCall("attach_block", b) =>
              TxAddrsPresent(db, b) /\ db["EXT"] = last.pre["EXT"]
        /\ OnlyCall("detach_block", b) =>
              TxAddrsAbsent(db, b) /\ db["EXT"] = last.pre["EXT"]
        /\ OnlyCall("insert_block_ext", b) =>
              get_block_ext(db, HeaderHash(b.header)) = Some(InitExt(b))

C15_Witness ==
    \E b \in world :
        /\ OnlyCall("detach_block", b)
        /\ b.transactions # <<>>
        /\ TxAddrsPresent(last.pre, b)
        /\ TxAddrsAbsent(db, b)
        /\ get_block_ext(last.pre, HeaderHash(b.header)) # None
        /\ get_block_ext(db, HeaderHash(b.header)) # None

\* b is attached at its height: both INDEX entries name it
AttachedAt(d, b) ==
    /\ get_block_hash(d, b.header.number) = Some(HeaderHash(b.header))
    /\ get_block_number(d, HeaderHash(b.header)) = Some(b.header.number)

\* the reorg batches from b to b2: detach b, then attach b2, b2 inserted in
\* between or stored already
ReorgCalls(b, b2) ==
    {<<Call("detach_block", b), Call("attach_block", b2)>>,
     <<Call("detach_block", b), Call("insert_block", b2), Call("attach_block", b2)>>}

Reorged(b, b2) ==
    /\ b # b2
    /\ b.header.number = b2.header.number
    /\ Committed
    /\ last.calls \in ReorgCalls(b, b2)
    /\ AttachedAt(last.pre, b)

\* C22: with b attached at height n, one committed batch that detaches b and
\* then (inserts and) attaches a different block b2 of height n leaves
\* INDEX[n] = h(b2), INDEX[h(b2)] = n, no INDEX entry for h(b), a TX_ADDR
\* entry pointing into b2 for every transaction of b2 (those shared with b
\* too), none for the transactions of b alone, and get_block(h(b)) returning
\* what it returned before the batch.
C22_ReorgStepOrdering ==
    \A b, b2 \in world :
        Reorged(b, b2) =>
            /\ get_block_hash(db, b.header.number) = Some(HeaderHash(b2.header))
            /\ get_block_number(db, HeaderHash(b2.header)) = Some(b2.header.number)
            /\ get_block_number(db, HeaderHash(b.header)) = None
            /\ TxAddrsPresent(db, b2)
            /\ \A t \in Range(b.transactions) \ Range(b2.transactions) :
                  get_transaction_address(db, t.hash) = None
            /\ get_block(db, HeaderHash(b.header)) = get_block(last.pre, HeaderHash(b.header))
            /\ get_block(last.pre, HeaderHash(b.header)) = Some(b) =>
                  get_block(db, HeaderHash(b.header)) = Some(b)

C22_Witness ==
    \E b, b2 \in world :
        /\ Reorged(b, b2)
        /\ Made(last.calls, "insert_block", b2)
        /\ Range(b.transactions) \cap Range(b2.transactions) # {}
        /\ Range(b.transactions) \ Range(b2.transactions) # {}
        /\ get_transaction_address(last.pre, Head(b2.transactions).hash) # None
        /\ get_block_hash(db, b.header.number) = Some(HeaderHash(b2.header))
        /\ TxAddrsPresent(db, b2)
        /\ get_block(db, HeaderHash(b.header)) = Some(b)
        /\ get_block(db, HeaderHash(b2.header)) = Some(b2)

\* the columns get_block reads besides HEADER
CompanionColumns == {"UNCLE", "PROPOSAL_IDS", "BODY", "BODY_ADDRS"}

\* C23: in every store state reached by committed batches, a HEADER entry
\* for hash h comes with UNCLE, PROPOSAL_IDS, BODY and BODY_ADDRS entries
\* for h; get_block(h) never takes a "must be stored" path and is None
\* exactly when the header is absent.
C23_StoreIntegrity ==
    \A b \in world :
        LET h == HeaderHash(b.header)
        IN  /\ StoreGet(db, "HEADER", HashBytes(h)) # None =>
                  \A col \in CompanionColumns : StoreGet(db, col, HashBytes(h)) # None
            /\ ~IsPanic(get_block(db, h))
            /\ get_block(db, h) = None <=> get_header(db, h) = None

C23_Witness ==
    \E b, b2 \in world :
        /\ Committed
        /\ Made(last.calls, "insert_block", b)
        /\ Made(last.calls, "detach_block", b)
        /\ get_header(db, HeaderHash(b.header)) # None
        /\ get_block(db, HeaderHash(b.header)) = Some(b)
        /\ get_header(db, HeaderHash(b2.header)) = None
        /\ get_block(db, HeaderHash(b2.header)) = None

(***************************************************************************)
(* Claims about send_transaction and get_pool_transaction.                 *)
(***************************************************************************)
\* Thread t is between taking the chain-state lock and dropping its guard.
Holding(t) == threads[t].pc \in {"resolve", "verify", "match", "broadcast", "return", "get_read"}

Sending(t) == threads[t].call = "send_transaction"

\* The current or last send_transaction of t added its transaction to the pool.
Enqueued(t) ==
    /\ Sending(t)
    /\ threads[t].pc \in {"broadcast", "return", "idle"}
    /\ threads[t].seen # None
    /\ ~InPool(threads[t].seen[1], threads[t].tx.hash)
    /\ InPool(pool, threads[t].tx.hash)

\* C16: a send_transaction holds the chain-state lock from before it
\* resolves against the pool until after it has verified and enqueued: no
\* two calls (send_transaction or get_pool_transaction) are inside at once,
\* the pool a call enqueues into is the pool it resolved against, and of two
\* submissions the later one resolved against the pool the earlier one left.
C16_AdmissionSerialized ==
    /\ \A t \in RpcThreads : Holding(t) => lock = Some(t)
    /\ \A t1, t2 \in RpcThreads : (Holding(t1) /\ Holding(t2)) => t1 = t2
    /\ \A t \in RpcThreads :
          threads[t].pc \in {"verify", "match"} => threads[t].seen = Some(pool)
    /\ \A t1, t2 \in RpcThreads :
          (t1 # t2 /\ Enqueued(t1) /\ Enqueued(t2)) =>
              \/ InPool(threads[t2].seen[1], threads[t1].tx.hash)
              \/ InPool(threads[t1].seen[1], threads[t2].tx.hash)

C16_Witness ==
    \E t1, t2 \in RpcThreads :
        /\ t1 # t2
        /\ At(t1, "match")
        /\ threads[t1].tx_result.ok
        /\ At(t2, "lock")
        /\ threads[t1].tx # threads[t2].tx
        /\ threads[t1].tx.inputs = threads[t2].tx.inputs
        /\ threads[t1].tx.inputs # <<>>
        /\ lock = Some(t1)

\* The send_transaction of t has its result and its transaction passed verification.
ReturnsVerified(t) ==
    /\ Sending(t)
    /\ threads[t].pc \in {"return", "idle"}
    /\ threads[t].tx_result # None
    /\ threads[t].tx_result.ok

Relayed(h) == \E i \in DOMAIN relayed : relayed[i].tx.hash = h

\* C17 as claimed: every send_transaction whose transaction passes
\* verification has the transaction in the pool and has broadcast it when
\* it returns Ok(tx_hash), a transaction already in the pool included.
C17_ValidEnqueuedAndBroadcast ==
    \A t \in RpcThreads :
        ReturnsVerified(t) =>
            /\ threads[t].ret = Ok(threads[t].tx.hash)
            /\ InPool(pool, threads[t].tx.hash)
            /\ threads[t].sent
            /\ Relayed(threads[t].tx.hash)

\* C17 (amended): every send_transaction whose transaction passes
\* verification returns Ok(tx_hash) with the transaction in the pool; the
\* call has enqueued and broadcast it when the pool did not hold it yet, and
\* has neither enqueued nor broadcast it when the pool already held it.
C17_ValidEnqueuedBroadcastWhenNew ==
    \A t \in RpcThreads :
        ReturnsVerified(t) =>
            /\ threads[t].ret = Ok(threads[t].tx.hash)
            /\ InPool(pool, threads[t].tx.hash)
            /\ ~InPool(threads[t].seen[1], threads[t].tx.hash) =>
                  threads[t].sent /\ Relayed(threads[t].tx.hash)
            /\ InPool(threads[t].seen[1], threads[t].tx.hash) => ~threads[t].sent

C17_Witness ==
    \E t1, t2 \in RpcThreads :
        /\ t1 # t2
        /\ ReturnsVerified(t1)
        /\ ReturnsVerified(t2)
        /\ At(t1, "idle")
        /\ At(t2, "idle")
        /\ threads[t1].tx = threads[t2].tx
        /\ threads[t1].sent
        /\ ~threads[t2].sent
        /\ Len(relayed) = 1
        /\ threads[t2].ret = Ok(threads[t2].tx.hash)

\* The send_transaction of t has verified its transaction and verify_rtx
\* returned an error.
VerifyFailed(t) ==
    /\ Sending(t)
    /\ threads[t].pc \in {"match", "return", "idle"}
    /\ threads[t].tx_result # None
    /\ ~threads[t].tx_result.ok

\* what a rejected call has done when it is about to return or has returned
RejectedCleanly ==
    \A t \in RpcThreads :
        (VerifyFailed(t) /\ ~At(t, "match")) =>
            /\ threads[t].ret = Err("Invalid")
            /\ ~threads[t].sent
            /\ At(t, "return") => pool = threads[t].seen[1]

\* what a step may do to the pool and to the network
AdmissionStep ==
    /\ \A t \in RpcThreads :
          (VerifyFailed(t) /\ At(t, "match") /\ threads'[t] # threads[t]) =>
              /\ threads'[t].pc = "return"
              /\ threads'[t].ret = Err("Invalid")
              /\ pool' = pool
              /\ relayed' = relayed
    /\ pool' # pool =>
          \E t \in RpcThreads :
              /\ Sending(t)
              /\ At(t, "match")
              /\ threads[t].tx_result.ok
              /\ pool' = pool \cup {PoolEntry(threads[t].tx, 0,
                                              Some(threads[t].tx_result.value))}
    /\ relayed' # relayed =>
          \E t \in RpcThreads :
              /\ Enqueued(t)
              /\ At(t, "broadcast")
              /\ threads[t].tx_result.ok
              /\ relayed' = Append(relayed, [tx |-> threads[t].tx,
                                             cycles |-> threads[t].tx_result.value])

\* C24: when verify_rtx returns an error, send_transaction returns an RPC
\* error of kind Invalid, leaves the transaction pool as it was and sends
\* nothing to the network; the pool grows only by a verified transaction,
\* and a transaction is broadcast only by the call that verified it and
\* newly enqueued it.
C24_InvalidNeverAdmitted == [](RejectedCleanly) /\ [][AdmissionStep]_vars

C24_Witness ==
    \E t \in RpcThreads :
        /\ VerifyFailed(t)
        /\ At(t, "return")
        /\ threads[t].ret = Err("Invalid")
        /\ pool # {}
        /\ pool = threads[t].seen[1]
        /\ ~InPool(pool, threads[t].tx.hash)
        /\ Len(relayed) = 1
        /\ relayed[1].tx # threads[t].tx

====
